---- MODULE Spec2Model ----
(***************************************************************************)
(* GmailSync: the retry helper of gmail_utils.py, the batched operations   *)
(* of the counter, the labeler and the archiver, and the paginated         *)
(* listing of message identifiers.                                         *)
(*                                                                         *)
(* Times are in milliseconds (time.sleep(1) is 1000, time.sleep(0.5) is    *)
(* 500), so that every delay of the code is an integer.                    *)
(***************************************************************************)
EXTENDS Integers, Sequences, FiniteSets, TLC

VARIABLES
    op,              \* the function under execution
    max_retries,     \* execute_batch_with_backoff: parameter
    initial_delay,   \* execute_batch_with_backoff: parameter (ms)
    backoff_factor,  \* execute_batch_with_backoff: parameter
    attempt,         \* execute_batch_with_backoff: the loop variable
    bstate,          \* execute_batch_with_backoff: "idle", "running", "returned", "raised"
    raised,          \* the exception that left the function under execution, or NoError
    trace,           \* the network calls and sleeps made so far, in order
    message_ids,     \* batched operations: the identifier list passed in
    faultId,         \* the one message of the mailbox that is not a plain one (0: none)
    faultKind,       \* what is wrong with it: "deleted" or "nofrom"
    i,               \* batched operations: the loop variable (start of the chunk)
    batches,         \* batched operations: the batches created, each the ids added to it
    acc,             \* batched operations: senders_list / headers_list / records written
    fstate,          \* batched operations: "start", "loop", "backoff", "returned", "raised"
    pages,           \* listing: the pages the listing endpoint holds, each a list of ids
    limit,           \* get_all_message_ids: parameter ([none |-> TRUE] for None)
    request,         \* listing: the page the pending request asks for (0: request is None)
    all_message_ids, \* listing: the identifiers accumulated, then the list returned
    lstate,          \* listing: "idle", "running", "returned"
    file,            \* archiver: the f.write calls made on the output file, in order
    fileOpens,       \* archiver: how many times the output file was opened
    fileOpen,        \* archiver: whether the output file is open
    all_labels_map,  \* labeler: the name -> id mapping handed to ensure_label_exists
    nextLabelId,     \* labeler: the id the remote side gives the next label created
    lcalls,          \* labeler: the label and modify requests made, and the ids returned
    parent_label_name, \* apply_domain_labels: parameter
    domain_groups,   \* apply_domain_labels: df.groupby('domain'), in iteration order
    g,               \* apply_domain_labels: the group the loop is at
    astate,          \* labeler: "idle", "start", "groups", "returned"
    scopes,          \* get_gmail_service: parameter
    token_file,      \* get_gmail_service: content of token.<scope_name>.json, per scope_name
    creds,           \* get_gmail_service: the local variable creds
    credentials_json_content, \* get_gmail_service: parameter
    credentials_file,\* get_gmail_service: whether credentials_path exists
    alog,            \* get_gmail_service: the steps taken, in order
    apc,             \* get_gmail_service: position in the function
    service,         \* get_gmail_service: the value returned
    input,           \* pure functions: the argument
    output,          \* pure functions: the value returned
    pstate           \* pure functions: "called", "returned"

backoffVars == <<max_retries, initial_delay, backoff_factor, attempt, bstate>>
fileVars    == <<file, fileOpens, fileOpen>>
batchVars   == <<message_ids, faultId, faultKind, i, batches, acc, fstate, fileVars>>
listVars    == <<pages, limit, request, all_message_ids, lstate>>
labelVars   == <<all_labels_map, nextLabelId, lcalls, parent_label_name, domain_groups,
                 g, astate>>
authVars    == <<scopes, token_file, creds, credentials_json_content, credentials_file, alog,
                 apc, service>>
pureVars    == <<input, output, pstate>>
restVars    == <<labelVars, authVars, pureVars>>
vars == <<op, backoffVars, raised, trace, batchVars, listVars, restVars>>

----------------------------------------------------------------------------
(* Bounds of the model *)

MaxRetriesTop == 5      \* max_retries ranges over -1..MaxRetriesTop
MaxLen == 27            \* the identifier lists have 0..MaxLen identifiers
MaxPages == 3           \* the listing endpoint holds 1..MaxPages pages
MaxPageSize == 2        \* each of 0..MaxPageSize identifiers
MaxLimit == 4           \* --limit ranges over -MaxNegLimit..MaxLimit, or is absent
MaxNegLimit == 2
MaxEnsureCalls == 3     \* ensure_label_exists is called up to MaxEnsureCalls times in a row
MaxGroupSize == 2       \* a domain group holds 1..MaxGroupSize messages
MaxStr == 5             \* sender strings have up to MaxStr characters
MaxParts == 2           \* a multipart payload has up to MaxParts parts
MaxDepth == 2           \* multipart payloads nest up to MaxDepth deep

(* Program constants *)

DefaultMaxRetries == 5
DefaultInitialDelay == 1000
DefaultBackoffFactor == 2
batch_size == 25

----------------------------------------------------------------------------
(* HTTP statuses a batch execution can end with *)

OK == 200
RetriableStatuses == {403, 429, 500, 503}
Statuses == {403, 429, 500, 502, 503, 404}

NoError == [id |-> 0, status |-> 0]

(* The limit parameter: None, or an integer. *)
NoLimit == [none |-> TRUE, n |-> 0]
Limit(n) == [none |-> FALSE, n |-> n]

(* The HttpError raised by the n-th network call of the run. *)
HttpError(n, status) == [id |-> n, status |-> status]

Event(kind, chunk, status, ms) ==
    [kind |-> kind, chunk |-> chunk, status |-> status, ms |-> ms]

RECURSIVE Pow(_, _)
Pow(b, e) == IF e <= 0 THEN 1 ELSE b * Pow(b, e - 1)

Executes(tr) == SelectSeq(tr, LAMBDA e : e.kind = "execute")
BackoffSleeps(tr) == SelectSeq(tr, LAMBDA e : e.kind = "backoff_sleep")

----------------------------------------------------------------------------
(* The state of the functions a specification does not run *)

IdleBackoff ==
    /\ max_retries = DefaultMaxRetries
    /\ initial_delay = DefaultInitialDelay
    /\ backoff_factor = DefaultBackoffFactor
    /\ attempt = 0
    /\ bstate = "idle"

IdleBatch ==
    /\ message_ids = <<>>
    /\ faultId = 0
    /\ faultKind = "deleted"
    /\ i = 0
    /\ batches = <<>>
    /\ acc = <<>>
    /\ fstate = "start"
    /\ file = <<>>
    /\ fileOpens = 0
    /\ fileOpen = FALSE

IdleList ==
    /\ pages = <<>>
    /\ limit = NoLimit
    /\ request = 0
    /\ all_message_ids = <<>>
    /\ lstate = "idle"

IdleLabel ==
    /\ all_labels_map = <<>>
    /\ nextLabelId = 1
    /\ lcalls = <<>>
    /\ parent_label_name = <<>>
    /\ domain_groups = <<>>
    /\ g = 0
    /\ astate = "idle"

IdleAuth ==
    /\ scopes = <<>>
    /\ token_file = <<>>
    /\ creds = "None"
    /\ credentials_json_content = "None"
    /\ credentials_file = FALSE
    /\ alog = <<>>
    /\ apc = "idle"
    /\ service = "None"

IdlePure ==
    /\ input = <<>>
    /\ output = <<>>
    /\ pstate = "idle"

----------------------------------------------------------------------------
(* execute_batch_with_backoff *)

IsRetriableAny(status) == status >= 400

IsRetriable(status) == status \in RetriableStatuses

WaitTimeLinear(a) == initial_delay * backoff_factor * (a + 1)

WaitTime(a) == initial_delay * Pow(backoff_factor, a)

MayRetryOnLast(a) == a < max_retries

MayRetry(a) == a + 1 < max_retries

RaisedError(error) == error

(* The chunk the batch under execution belongs to (1 for a batch executed   *)
(* on its own).                                                             *)
CurrentChunk == IF op = "backoff" THEN 1 ELSE Len(batches)

(* One iteration of the for loop: batch.execute() and what follows it. *)
BackoffAttempt(status) ==
    /\ bstate = "running"
    /\ attempt < max_retries
    /\ LET call  == Event("execute", CurrentChunk, status, 0)
           error == HttpError(Len(trace) + 1, status)
       IN  IF status = OK
           THEN /\ trace' = Append(trace, call)
                /\ bstate' = "returned"
                /\ UNCHANGED <<attempt, raised>>
           ELSE IF IsRetriable(status) /\ MayRetry(attempt)
           THEN /\ trace' = trace \o <<call,
                               Event("backoff_sleep", CurrentChunk, 0, WaitTime(attempt))>>
                /\ attempt' = attempt + 1
                /\ UNCHANGED <<bstate, raised>>
           ELSE /\ trace' = Append(trace, call)
                /\ bstate' = "raised"
                /\ raised' = RaisedError(error)
                /\ UNCHANGED attempt
    /\ UNCHANGED <<op, listVars, restVars, max_retries, initial_delay, backoff_factor>>

BackoffSucceeds ==
    /\ op = "backoff"
    /\ BackoffAttempt(OK)
    /\ UNCHANGED batchVars

BackoffFails ==
    /\ op = "backoff"
    /\ \E status \in Statuses : BackoffAttempt(status)
    /\ UNCHANGED batchVars

(* range(max_retries) is exhausted without a return or a raise. *)
BackoffLoopEnd ==
    /\ op = "backoff"
    /\ bstate = "running"
    /\ attempt >= max_retries
    /\ bstate' = "returned"
    /\ UNCHANGED <<op, listVars, restVars, max_retries, initial_delay, backoff_factor, attempt,
                   raised, trace, batchVars>>

InitBackoff ==
    /\ op = "backoff"
    /\ max_retries \in -1 .. MaxRetriesTop
    /\ initial_delay \in {500, DefaultInitialDelay}
    /\ backoff_factor \in {1, DefaultBackoffFactor, 3}
    /\ attempt = 0
    /\ bstate = "running"
    /\ raised = NoError
    /\ trace = <<>>
    /\ IdleBatch
    /\ IdleList
    /\ IdleLabel
    /\ IdleAuth
    /\ IdlePure

NextBackoff == BackoffSucceeds \/ BackoffFails \/ BackoffLoopEnd

SpecBackoff == InitBackoff /\ [][NextBackoff]_vars

----------------------------------------------------------------------------
(* The batched operations: fetch_senders_in_batches (counter),              *)
(* fetch_email_headers and apply_label_to_emails_batch (labeler),           *)
(* fetch_and_save_messages (archiver).                                      *)

BatchOps == {"fetch_senders", "fetch_headers", "apply_label", "archiver"}
BatchStatuses == {429, 502, 404}

Min(a, b) == IF a <= b THEN a ELSE b

CeilDiv(n, d) == (n + d - 1) \div d

(* message_ids[i:i + batch_size] *)
ChunkShort(ids, start) == SubSeq(ids, start + 2, Min(start + batch_size, Len(ids)))

Chunk(ids, start) == SubSeq(ids, start + 1, Min(start + batch_size, Len(ids)))

(* range(0, len(message_ids), batch_size) still has the value start. *)
InRangeOnce(start, n) == start < n \/ start = 0

InRange(start, n) == start < n

(* What the remote side delivers for one item of a batch that executed:     *)
(* an exception (the message is gone) or the message.                       *)
ItemException(m) == m = faultId /\ faultKind = "deleted"
HasFrom(m) == ~ (m = faultId /\ faultKind = "nofrom")

SendersCallbackKeepsAll(list, m) == Append(list, m)

(* process_message_callback of fetch_senders_in_batches: the entry appended  *)
(* is the sender of message m, written here as m.                            *)
SendersCallback(list, m) ==
    IF ItemException(m) THEN list
    ELSE IF HasFrom(m) THEN Append(list, m) ELSE list

(* process_message_callback of fetch_email_headers *)
HeadersCallback(list, m) ==
    IF ItemException(m) THEN list ELSE Append(list, m)

(* batch_callback of apply_label_to_emails_batch *)
LabelCallback(list, m) == list

(* process_message_callback of fetch_and_save_messages: one record written *)
ArchiveCallback(list, m) ==
    IF ItemException(m) THEN list ELSE Append(list, m)

(* The f.write calls process_message_callback of the archiver makes for a  *)
(* message delivered without exception, in order.                          *)
Write(part, m, value) == [part |-> part, id |-> m, value |-> value]

ArchiveWrites(m) ==
    << Write("--- MESSAGE START ---", m, ""),
       Write("Message-ID", m, "id"),
       Write("From", m, IF HasFrom(m) THEN "from" ELSE "N/A"),
       Write("Subject", m, "subject"),
       Write("Date", m, "date"),
       Write("body", m, "body"),
       Write("--- MESSAGE END ---", m, "") >>

FileCallbackAlways(f, m) == f \o ArchiveWrites(m)

(* process_message_callback of fetch_and_save_messages, on the file *)
FileCallback(f, m) ==
    IF ItemException(m) THEN f ELSE f \o ArchiveWrites(m)

(* batch.execute() of the archiver returned: what its callbacks write. *)
RunWrites(f, chunk) ==
    LET w[k \in 0 .. Len(chunk)] ==
            IF k = 0 THEN f ELSE FileCallback(w[k - 1], chunk[k])
    IN  w[Len(chunk)]

(* The callback the function under execution gave to its batches. *)
Callback(list, m) ==
    CASE op = "fetch_senders" -> SendersCallback(list, m)
      [] op = "fetch_headers" -> HeadersCallback(list, m)
      [] op = "apply_label"   -> LabelCallback(list, m)
      [] op = "archiver"      -> ArchiveCallback(list, m)

(* batch.execute() returned: the callback is called once per item, in order. *)
RunCallbacks(list, chunk) ==
    LET f[k \in 0 .. Len(chunk)] ==
            IF k = 0 THEN list ELSE Callback(f[k - 1], chunk[k])
    IN  f[Len(chunk)]

(* One iteration of the chunk loop of the counter and of the labeler:       *)
(* the batch is built, executed once, and the pause follows a success only. *)
DirectChunk(status) ==
    LET chunk == Chunk(message_ids, i)
        k     == Len(batches) + 1
    IN  /\ batches' = Append(batches, chunk)
        /\ IF status = OK
           THEN /\ trace' = trace \o <<Event("execute", k, OK, 0),
                                       Event("chunk_sleep", k, 0, 1000)>>
                /\ acc' = RunCallbacks(acc, chunk)
           ELSE /\ trace' = Append(trace, Event("execute", k, status, 0))
                /\ acc' = acc
        /\ i' = i + batch_size
        /\ UNCHANGED <<op, listVars, restVars, backoffVars, raised, message_ids, faultId,
                     faultKind, fstate, fileVars>>

(* The loop is over and the function returns; in the archiver this leaves   *)
(* the with block, which closes the output file.                            *)
LoopReturn ==
    /\ fstate = "loop"
    /\ ~ InRange(i, Len(message_ids))
    /\ fstate' = "returned"
    /\ fileOpen' = FALSE
    /\ UNCHANGED <<op, listVars, restVars, backoffVars, raised, trace, message_ids,
                   faultId, faultKind, i, batches, acc, file, fileOpens>>

FetchSendersChunk ==
    /\ op = "fetch_senders"
    /\ fstate = "loop"
    /\ InRange(i, Len(message_ids))
    /\ \E status \in {OK} \cup BatchStatuses : DirectChunk(status)

FetchSendersReturn == op = "fetch_senders" /\ LoopReturn

(* The listing request that opens fetch_email_headers: message_ids is what  *)
(* it returns; an HttpError or an empty listing ends the function with [].  *)
FetchHeadersList ==
    /\ op = "fetch_headers"
    /\ fstate = "start"
    /\ \E status \in {OK} \cup BatchStatuses :
          /\ trace' = Append(trace, Event("list", 0, status, 0))
          /\ fstate' = IF status = OK /\ message_ids # <<>> THEN "loop" ELSE "returned"
    /\ UNCHANGED <<op, listVars, restVars, backoffVars, raised, message_ids, faultId,
                   faultKind, i, batches, acc, fileVars>>

FetchHeadersChunk ==
    /\ op = "fetch_headers"
    /\ fstate = "loop"
    /\ InRange(i, Len(message_ids))
    /\ \E status \in {OK} \cup BatchStatuses : DirectChunk(status)

FetchHeadersReturn == op = "fetch_headers" /\ LoopReturn

ApplyLabelStart ==
    /\ op = "apply_label"
    /\ fstate = "start"
    /\ fstate' = IF message_ids = <<>> THEN "returned" ELSE "loop"
    /\ UNCHANGED <<op, listVars, restVars, backoffVars, raised, trace, message_ids,
                   faultId, faultKind, i, batches, acc, fileVars>>

ApplyLabelChunk ==
    /\ op = "apply_label"
    /\ fstate = "loop"
    /\ InRange(i, Len(message_ids))
    /\ \E status \in {OK} \cup BatchStatuses : DirectChunk(status)

ApplyLabelReturn == op = "apply_label" /\ LoopReturn

(* with open(output_file, 'w') *)
ArchiverOpen ==
    /\ op = "archiver"
    /\ fstate = "start"
    /\ fstate' = "loop"
    /\ acc' = <<>>
    /\ file' = <<>>
    /\ fileOpens' = fileOpens + 1
    /\ fileOpen' = TRUE
    /\ UNCHANGED <<op, listVars, restVars, backoffVars, raised, trace, message_ids,
                   faultId, faultKind, i, batches>>

(* The batch of the chunk is built and execute_batch_with_backoff(batch) is *)
(* entered with its default parameters.                                     *)
ArchiverChunk ==
    /\ op = "archiver"
    /\ fstate = "loop"
    /\ InRange(i, Len(message_ids))
    /\ batches' = Append(batches, Chunk(message_ids, i))
    /\ max_retries' = DefaultMaxRetries
    /\ initial_delay' = DefaultInitialDelay
    /\ backoff_factor' = DefaultBackoffFactor
    /\ attempt' = 0
    /\ bstate' = "running"
    /\ fstate' = "backoff"
    /\ UNCHANGED <<op, listVars, restVars, raised, trace, message_ids, faultId, faultKind,
                   i, acc, fileVars>>

(* The output file after batch.execute() ended with the status: the items  *)
(* are delivered to the callback only by an execution that does not raise. *)
FileAfterAnyExecute(status, f, chunk) == RunWrites(f, chunk)

FileAfter(status, f, chunk) == IF status = OK THEN RunWrites(f, chunk) ELSE f

(* One attempt of execute_batch_with_backoff on the archiver's batch. *)
ArchiverExecute ==
    /\ op = "archiver"
    /\ fstate = "backoff"
    /\ \E status \in {OK} \cup BatchStatuses :
          /\ BackoffAttempt(status)
          /\ acc' = IF status = OK
                    THEN RunCallbacks(acc, batches[Len(batches)])
                    ELSE acc
          /\ file' = FileAfter(status, file, batches[Len(batches)])
    /\ UNCHANGED <<message_ids, faultId, faultKind, i, batches, fstate, fileOpens, fileOpen>>

(* execute_batch_with_backoff returned: time.sleep(0.5), next chunk. *)
ArchiverChunkDone ==
    /\ op = "archiver"
    /\ fstate = "backoff"
    /\ bstate = "returned"
    /\ trace' = Append(trace, Event("chunk_sleep", Len(batches), 0, 500))
    /\ i' = i + batch_size
    /\ bstate' = "idle"
    /\ fstate' = "loop"
    /\ UNCHANGED <<op, listVars, restVars, max_retries, initial_delay, backoff_factor,
                   attempt, raised, message_ids, faultId, faultKind, batches, acc,
                   fileVars>>

ArchiverSwallows ==
    /\ op = "archiver"
    /\ fstate = "backoff"
    /\ bstate = "raised"
    /\ i' = i + batch_size
    /\ fstate' = "loop"
    /\ UNCHANGED <<op, listVars, restVars, backoffVars, raised, trace, message_ids,
                   faultId, faultKind, batches, acc, fileVars>>

(* execute_batch_with_backoff raised: the exception leaves the with block,  *)
(* which closes the output file, and then the function.                    *)
ArchiverPropagate ==
    /\ op = "archiver"
    /\ fstate = "backoff"
    /\ bstate = "raised"
    /\ fstate' = "raised"
    /\ fileOpen' = FALSE
    /\ UNCHANGED <<op, listVars, restVars, backoffVars, raised, trace, message_ids,
                   faultId, faultKind, i, batches, acc, file, fileOpens>>

ArchiverReturn == op = "archiver" /\ LoopReturn

InitBatch ==
    /\ op \in BatchOps
    /\ max_retries = DefaultMaxRetries
    /\ initial_delay = DefaultInitialDelay
    /\ backoff_factor = DefaultBackoffFactor
    /\ attempt = 0
    /\ bstate = "idle"
    /\ raised = NoError
    /\ trace = <<>>
    /\ \E n \in 0 .. MaxLen : message_ids = [k \in 1 .. n |-> k]
    /\ faultId \in 0 .. Len(message_ids)
    /\ faultKind \in IF faultId = 0 THEN {"deleted"} ELSE {"deleted", "nofrom"}
    /\ i = 0
    /\ batches = <<>>
    /\ acc = <<>>
    /\ fstate = IF op = "fetch_senders" THEN "loop" ELSE "start"
    /\ file = <<>>
    /\ fileOpens = 0
    /\ fileOpen = FALSE
    /\ IdleList
    /\ IdleLabel
    /\ IdleAuth
    /\ IdlePure

NextBatch ==
    \/ FetchSendersChunk \/ FetchSendersReturn
    \/ FetchHeadersList \/ FetchHeadersChunk \/ FetchHeadersReturn
    \/ ApplyLabelStart \/ ApplyLabelChunk \/ ApplyLabelReturn
    \/ ArchiverOpen \/ ArchiverChunk \/ ArchiverExecute
    \/ ArchiverChunkDone \/ ArchiverPropagate \/ ArchiverReturn

SpecBatch == InitBatch /\ [][NextBatch]_vars

----------------------------------------------------------------------------
(* The paginated listing: get_all_message_ids (counter) and                 *)
(* find_messages_in_date_range (archiver).                                  *)

ListOps == {"get_all_message_ids", "find_messages_in_date_range"}

Max(a, b) == IF a >= b THEN a ELSE b

(* `if limit`: None and 0 are false. *)
Truthy(l) == ~ l.none /\ l.n # 0

(* seq[:n], n an integer: a negative n counts from the end. *)
SliceTo(seq, n) ==
    IF n >= 0 THEN SubSeq(seq, 1, Min(n, Len(seq)))
    ELSE SubSeq(seq, 1, Max(Len(seq) + n, 0))

(* What follows the try block of get_all_message_ids. *)
Truncated(ids) == IF Truthy(limit) THEN SliceTo(ids, limit.n) ELSE ids

ListNextSkips(k) == IF k + 1 < Len(pages) THEN k + 2 ELSE 0

(* list_next: the request for the following page, None after the last one. *)
ListNext(k) == IF k < Len(pages) THEN k + 1 ELSE 0

(* One iteration of the while loop of get_all_message_ids, and the end of   *)
(* the function when the iteration leaves the loop.                         *)
GetAllPage(status) ==
    /\ op = "get_all_message_ids"
    /\ lstate = "running"
    /\ request # 0
    /\ LET call     == Event("list", request, status, 0)
           extended == all_message_ids \o pages[request]
       IN  IF status # OK
           THEN /\ trace' = Append(trace, call)
                /\ all_message_ids' = Truncated(all_message_ids)
                /\ lstate' = "returned"
                /\ UNCHANGED request
           ELSE IF Truthy(limit) /\ Len(extended) >= limit.n
           THEN /\ trace' = Append(trace, call)
                /\ all_message_ids' = Truncated(extended)
                /\ lstate' = "returned"
                /\ UNCHANGED request
           ELSE /\ trace' = trace \o <<call, Event("page_sleep", request, 0, 100)>>
                /\ request' = ListNext(request)
                /\ IF ListNext(request) = 0
                   THEN all_message_ids' = Truncated(extended) /\ lstate' = "returned"
                   ELSE all_message_ids' = extended /\ lstate' = lstate
    /\ UNCHANGED <<op, backoffVars, raised, batchVars, restVars, pages, limit>>

GetAllPageSucceeds == GetAllPage(OK)

GetAllPageFails == \E status \in BatchStatuses : GetAllPage(status)

(* One iteration of the while loop of find_messages_in_date_range. *)
FindPage(status) ==
    /\ op = "find_messages_in_date_range"
    /\ lstate = "running"
    /\ request # 0
    /\ LET call == Event("list", request, status, 0)
       IN  IF status # OK
           THEN /\ trace' = Append(trace, call)
                /\ lstate' = "returned"
                /\ UNCHANGED <<request, all_message_ids>>
           ELSE /\ trace' = trace \o <<call, Event("page_sleep", request, 0, 100)>>
                /\ all_message_ids' = all_message_ids \o pages[request]
                /\ request' = ListNext(request)
                /\ lstate' = IF ListNext(request) = 0 THEN "returned" ELSE lstate
    /\ UNCHANGED <<op, backoffVars, raised, batchVars, restVars, pages, limit>>

FindPageSucceeds == FindPage(OK)

FindPageFails == \E status \in BatchStatuses : FindPage(status)

(* The listing of a mailbox: P pages of the given sizes, the identifiers    *)
(* numbered in listing order.                                               *)
PagesOf(sizes) ==
    LET before[k \in 0 .. Len(sizes)] == IF k = 0 THEN 0 ELSE before[k - 1] + sizes[k]
    IN  [k \in 1 .. Len(sizes) |-> [j \in 1 .. sizes[k] |-> before[k - 1] + j]]

InitList ==
    /\ op \in ListOps
    /\ max_retries = DefaultMaxRetries
    /\ initial_delay = DefaultInitialDelay
    /\ backoff_factor = DefaultBackoffFactor
    /\ attempt = 0
    /\ bstate = "idle"
    /\ raised = NoError
    /\ trace = <<>>
    /\ IdleBatch
    /\ IdleLabel
    /\ IdleAuth
    /\ IdlePure
    /\ \E P \in 1 .. MaxPages : \E sizes \in [1 .. P -> 0 .. MaxPageSize] :
          pages = PagesOf(sizes)
    /\ limit \in IF op = "get_all_message_ids"
                 THEN {NoLimit} \cup {Limit(n) : n \in (0 - MaxNegLimit) .. MaxLimit}
                 ELSE {NoLimit}
    /\ request = 1
    /\ all_message_ids = <<>>
    /\ lstate = "running"

NextList == GetAllPageSucceeds \/ GetAllPageFails \/ FindPageSucceeds \/ FindPageFails

SpecList == InitList /\ [][NextList]_vars

----------------------------------------------------------------------------
(* The labels of the labeler: ensure_label_exists and apply_domain_labels.  *)
(* A label name is the tuple of its "/"-separated parts: <<parent>> for the *)
(* parent label, <<parent, domain>> for f"{parent}/{domain}".               *)

LabelOps == {"ensure_label_exists", "apply_domain_labels"}

ParentName == <<"unsubscribe">>
Domains == <<"", "a.com", "b.com">>

NestedLabelName(parent, domain) == Append(parent, domain)

LabelNames == {ParentName} \cup {NestedLabelName(ParentName, Domains[d]) : d \in 2 .. 3}

(* A request of the labeler, or the return of ensure_label_exists:          *)
(* kind is "create", "ensure" (the return, id 0 for None) or "modify".      *)
LCall(kind, name, id, status, ids) ==
    [kind |-> kind, name |-> name, id |-> id, status |-> status, ids |-> ids,
     add |-> IF kind = "modify" THEN <<id>> ELSE <<>>, remove |-> <<>>]

InMap(name) == name \in DOMAIN all_labels_map

(* ensure_label_exists(service, name, all_labels_map), the create request   *)
(* ending with the given status when one is made: the mapping afterwards,   *)
(* the id returned (0 for None) and the calls made.                         *)
EnsureMapForgets(name, status) == all_labels_map

EnsureMapKeepsFailure(name, status) ==
    IF InMap(name) THEN all_labels_map
    ELSE [n \in DOMAIN all_labels_map \cup {name} |->
             IF n = name THEN (IF status = OK THEN nextLabelId ELSE 0)
             ELSE all_labels_map[n]]

EnsureMap(name, status) ==
    IF InMap(name) \/ status # OK THEN all_labels_map
    ELSE [n \in DOMAIN all_labels_map \cup {name} |->
             IF n = name THEN nextLabelId ELSE all_labels_map[n]]

EnsureId(name, status) ==
    IF InMap(name) THEN all_labels_map[name]
    ELSE IF status = OK THEN nextLabelId ELSE 0

EnsureCalls(name, status) ==
    (IF InMap(name) THEN <<>>
     ELSE <<LCall("create", name, IF status = OK THEN nextLabelId ELSE 0, status, <<>>)>>)
    \o <<LCall("ensure", name, EnsureId(name, status), 0, <<>>)>>

EnsureNextId(name, status) ==
    IF ~ InMap(name) /\ status = OK THEN nextLabelId + 1 ELSE nextLabelId

NumEnsures == Len(SelectSeq(lcalls, LAMBDA c : c.kind = "ensure"))

(* One call of ensure_label_exists on the mapping. *)
Ensure(name, status) ==
    /\ op = "ensure_label_exists"
    /\ astate = "start"
    /\ NumEnsures < MaxEnsureCalls
    /\ all_labels_map' = EnsureMap(name, status)
    /\ nextLabelId' = EnsureNextId(name, status)
    /\ lcalls' = lcalls \o EnsureCalls(name, status)
    /\ UNCHANGED <<op, backoffVars, raised, trace, batchVars, listVars, authVars, pureVars,
                   parent_label_name, domain_groups, g, astate>>

EnsureCached == \E name \in LabelNames : InMap(name) /\ Ensure(name, OK)

EnsureCreates == \E name \in LabelNames : ~ InMap(name) /\ Ensure(name, OK)

EnsureCreateFails ==
    \E name \in LabelNames : \E status \in BatchStatuses :
        ~ InMap(name) /\ Ensure(name, status)

(* `if not parent_label_id` *)
NeverMissing(id) == FALSE

Missing(id) == id = 0

(* apply_domain_labels: the parent label is ensured; without it the         *)
(* function returns.                                                        *)
ApplyDomainLabelsParent ==
    /\ op = "apply_domain_labels"
    /\ astate = "start"
    /\ \E status \in {OK} \cup BatchStatuses :
          /\ all_labels_map' = EnsureMap(parent_label_name, status)
          /\ nextLabelId' = EnsureNextId(parent_label_name, status)
          /\ lcalls' = lcalls \o EnsureCalls(parent_label_name, status)
          /\ astate' = IF Missing(EnsureId(parent_label_name, status))
                       THEN "returned" ELSE "groups"
    /\ g' = 1
    /\ UNCHANGED <<op, backoffVars, raised, trace, batchVars, listVars, authVars, pureVars,
                   parent_label_name, domain_groups>>

(* apply_label_to_emails_batch(service, ids, label_id, name): one modify    *)
(* batch per chunk, the k-th ending with statuses[k].                       *)
ModifyCallsFirstBatch(ids, label_id, name, statuses) ==
    <<LCall("modify", name, label_id, statuses[1], Chunk(ids, 0))>>

ModifyCalls(ids, label_id, name, statuses) ==
    [k \in 1 .. CeilDiv(Len(ids), batch_size) |->
        LCall("modify", name, label_id, statuses[k], Chunk(ids, (k - 1) * batch_size))]

(* One iteration of the loop over the domain groups. *)
ApplyDomainLabelsGroup ==
    /\ op = "apply_domain_labels"
    /\ astate = "groups"
    /\ g <= Len(domain_groups)
    /\ LET domain == domain_groups[g].domain
           ids    == domain_groups[g].ids
           name   == NestedLabelName(parent_label_name, domain)
       IN  IF domain = ""
           THEN UNCHANGED <<all_labels_map, nextLabelId, lcalls>>
           ELSE \E status \in {OK} \cup BatchStatuses :
                \E statuses \in [1 .. CeilDiv(Len(ids), batch_size) -> {OK} \cup BatchStatuses] :
                   /\ all_labels_map' = EnsureMap(name, status)
                   /\ nextLabelId' = EnsureNextId(name, status)
                   /\ lcalls' = lcalls \o EnsureCalls(name, status) \o
                          (IF Missing(EnsureId(name, status)) THEN <<>>
                           ELSE ModifyCalls(ids, EnsureId(name, status), name, statuses))
    /\ g' = g + 1
    /\ UNCHANGED <<op, backoffVars, raised, trace, batchVars, listVars, authVars, pureVars,
                   parent_label_name, domain_groups, astate>>

ApplyDomainLabelsReturn ==
    /\ op = "apply_domain_labels"
    /\ astate = "groups"
    /\ g > Len(domain_groups)
    /\ astate' = "returned"
    /\ UNCHANGED <<op, backoffVars, raised, trace, batchVars, listVars, authVars, pureVars,
                   all_labels_map, nextLabelId, lcalls, parent_label_name, domain_groups, g>>

(* The mapping fetched before the calls: some of the labels exist already. *)
PrefetchedMaps ==
    {[n \in S |-> CHOOSE k \in 1 .. 3 :
                     n = <<ParentName, NestedLabelName(ParentName, Domains[2]),
                           NestedLabelName(ParentName, Domains[3])>>[k]] :
        S \in SUBSET LabelNames}

(* The sizes of a domain group: none (no message of the domain), a few     *)
(* messages, or more than one batch of them.                                *)
GroupSizes == (0 .. MaxGroupSize) \cup {batch_size + 1}

(* df.groupby('domain'): the groups in key order, each with its messages. *)
GroupsOf(sizes) ==
    LET present == SelectSeq(<<1, 2, 3>>, LAMBDA d : sizes[d] > 0)
        before[k \in 0 .. 3] == IF k = 0 THEN 0 ELSE before[k - 1] + sizes[k]
    IN  [k \in 1 .. Len(present) |->
            [domain |-> Domains[present[k]],
             ids |-> [j \in 1 .. sizes[present[k]] |-> before[present[k] - 1] + j]]]

InitLabel ==
    /\ op \in LabelOps
    /\ IdleBackoff
    /\ raised = NoError
    /\ trace = <<>>
    /\ IdleBatch
    /\ IdleList
    /\ IdleAuth
    /\ IdlePure
    /\ all_labels_map \in PrefetchedMaps
    /\ nextLabelId = 10
    /\ lcalls = <<>>
    /\ parent_label_name = ParentName
    /\ domain_groups \in IF op = "apply_domain_labels"
                         THEN {GroupsOf(sizes) : sizes \in [1 .. 3 -> GroupSizes]}
                         ELSE {<<>>}
    /\ g = 0
    /\ astate = "start"

NextLabel ==
    \/ EnsureCached \/ EnsureCreates \/ EnsureCreateFails
    \/ ApplyDomainLabelsParent \/ ApplyDomainLabelsGroup \/ ApplyDomainLabelsReturn

SpecLabel == InitLabel /\ [][NextLabel]_vars

----------------------------------------------------------------------------
(* get_gmail_service.  A token, in a file or in creds, is one of            *)
(*   "valid"                token present and not expired                   *)
(*   "expired_refreshable"  expired, with a refresh token                   *)
(*   "expired"              expired, without a refresh token                *)
(*   "refreshed"            what creds.refresh leaves                       *)
(*   "fresh"                what flow.run_local_server returns              *)
(* and a token file is "absent" or holds one of them.                       *)

ScopeNames == {"readonly", "modify"}

ScopeLists == {<<"https://www.googleapis.com/auth/gmail.readonly">>,
               <<"https://www.googleapis.com/auth/gmail.modify">>}

(* scope_name = "readonly" if 'readonly' in scopes[0] else "modify" *)
scope_name ==
    IF scopes[1] = "https://www.googleapis.com/auth/gmail.readonly"
    THEN "readonly" ELSE "modify"

StoredTokens == {"valid", "expired_refreshable", "expired"}

(* creds.valid, creds.expired, creds.refresh_token *)
ValidNever(c) == FALSE

Valid(c) == c \in {"valid", "refreshed", "fresh"}

Expired(c) == c \in {"expired_refreshable", "expired"}

HasRefreshToken(c) == c \in {"valid", "expired_refreshable", "refreshed", "fresh"}

(* The credentials_json_content argument: None, the empty string, text that *)
(* is not JSON, or the JSON of a client configuration.                      *)
Contents == {"None", "", "not json", "client config"}

(* `if credentials_json_content` *)
Given(content) == content \notin {"None", ""}

(* Lines 55-66: where the flow takes the client secret from: "content",     *)
(* "file", or no flow: "JSONDecodeError", "not found".                      *)
FlowSourceFallsBack(content, exists) ==
    IF Given(content) /\ content = "client config" THEN "content"
    ELSE IF exists THEN "file"
    ELSE "not found"

FlowSource(content, exists) ==
    IF Given(content)
    THEN IF content = "client config" THEN "content" ELSE "JSONDecodeError"
    ELSE IF exists THEN "file"
    ELSE "not found"

AStep(step, c) == [step |-> step, creds |-> c, scope |-> scope_name]

(* os.remove(token_path) *)
KeepToken(name) == token_file

RemoveToken(name) == [token_file EXCEPT ![name] = "absent"]

(* Lines 37-42: the token file is loaded if it exists, and the function     *)
(* goes on to the refresh, to the choice of the flow or to the build.       *)
GetGmailServiceLoad ==
    /\ op = "get_gmail_service"
    /\ apc = "start"
    /\ LET c == IF token_file[scope_name] # "absent" THEN token_file[scope_name] ELSE "None"
       IN  /\ creds' = c
           /\ alog' = Append(alog, AStep("load", c))
           /\ apc' = IF c # "None" /\ Valid(c) THEN "build"
                     ELSE IF c # "None" /\ Expired(c) /\ HasRefreshToken(c) THEN "refresh"
                     ELSE "source"
    /\ UNCHANGED <<op, backoffVars, raised, trace, batchVars, listVars, labelVars, pureVars,
                   scopes, token_file, credentials_json_content, credentials_file, service>>

(* creds.refresh(Request()) returns: the second test of line 53 is false    *)
(* and the token is written.                                                *)
RefreshSucceeds ==
    /\ op = "get_gmail_service"
    /\ apc = "refresh"
    /\ creds' = "refreshed"
    /\ alog' = Append(alog, AStep("refresh", "refreshed"))
    /\ apc' = "write"
    /\ UNCHANGED <<op, backoffVars, raised, trace, batchVars, listVars, labelVars, pureVars,
                   scopes, token_file, credentials_json_content, credentials_file, service>>

(* creds.refresh(Request()) raises RefreshError. *)
RefreshFails ==
    /\ op = "get_gmail_service"
    /\ apc = "refresh"
    /\ token_file' = RemoveToken(scope_name)
    /\ creds' = "None"
    /\ alog' = alog \o <<AStep("RefreshError", creds), AStep("remove", "None")>>
    /\ apc' = "source"
    /\ UNCHANGED <<op, backoffVars, raised, trace, batchVars, listVars, labelVars, pureVars,
                   scopes, credentials_json_content, credentials_file, service>>

(* Lines 54-66 with a flow made from the content or from the file. *)
FlowCreated ==
    /\ op = "get_gmail_service"
    /\ apc = "source"
    /\ FlowSource(credentials_json_content, credentials_file) \in {"content", "file"}
    /\ alog' = Append(alog,
                  AStep(FlowSource(credentials_json_content, credentials_file), creds))
    /\ apc' = "flow"
    /\ UNCHANGED <<op, backoffVars, raised, trace, batchVars, listVars, labelVars, pureVars,
                   scopes, token_file, creds, credentials_json_content, credentials_file,
                   service>>

(* Lines 59-61 and 64-66: return None. *)
NoFlowReturnsNone ==
    /\ op = "get_gmail_service"
    /\ apc = "source"
    /\ FlowSource(credentials_json_content, credentials_file)
          \in {"JSONDecodeError", "not found"}
    /\ alog' = Append(alog,
                  AStep(FlowSource(credentials_json_content, credentials_file), creds))
    /\ service' = "None"
    /\ apc' = "returned"
    /\ UNCHANGED <<op, backoffVars, raised, trace, batchVars, listVars, labelVars, pureVars,
                   scopes, token_file, creds, credentials_json_content, credentials_file>>

(* creds = flow.run_local_server(port=0) returns. *)
FlowCompletes ==
    /\ op = "get_gmail_service"
    /\ apc = "flow"
    /\ creds' = "fresh"
    /\ alog' = Append(alog, AStep("flow", "fresh"))
    /\ apc' = "write"
    /\ UNCHANGED <<op, backoffVars, raised, trace, batchVars, listVars, labelVars, pureVars,
                   scopes, token_file, credentials_json_content, credentials_file, service>>

(* flow.run_local_server raises (the authorization is refused): the         *)
(* exception leaves the function.                                           *)
FlowRaises ==
    /\ op = "get_gmail_service"
    /\ apc = "flow"
    /\ alog' = Append(alog, AStep("flow", "None"))
    /\ apc' = "raised"
    /\ UNCHANGED <<op, backoffVars, raised, trace, batchVars, listVars, labelVars, pureVars,
                   scopes, token_file, creds, credentials_json_content, credentials_file,
                   service>>

(* Lines 70-71: the token is written to token_path. *)
WriteToken ==
    /\ op = "get_gmail_service"
    /\ apc = "write"
    /\ token_file' = [token_file EXCEPT ![scope_name] = creds]
    /\ alog' = Append(alog, AStep("write", creds))
    /\ apc' = "build"
    /\ UNCHANGED <<op, backoffVars, raised, trace, batchVars, listVars, labelVars, pureVars,
                   scopes, creds, credentials_json_content, credentials_file, service>>

(* Lines 73-78: build returns the handle, or raises HttpError and the       *)
(* function returns None.  The handle is named by the token it is built on. *)
Build(status) ==
    /\ op = "get_gmail_service"
    /\ apc = "build"
    /\ alog' = Append(alog, AStep(IF status = OK THEN "build" ELSE "HttpError", creds))
    /\ service' = IF status = OK THEN creds ELSE "None"
    /\ apc' = "returned"
    /\ UNCHANGED <<op, backoffVars, raised, trace, batchVars, listVars, labelVars, pureVars,
                   scopes, token_file, creds, credentials_json_content, credentials_file>>

BuildSucceeds == Build(OK)

BuildFails == \E status \in BatchStatuses : Build(status)

InitAuth ==
    /\ op = "get_gmail_service"
    /\ IdleBackoff
    /\ raised = NoError
    /\ trace = <<>>
    /\ IdleBatch
    /\ IdleList
    /\ IdleLabel
    /\ IdlePure
    /\ scopes \in ScopeLists
    /\ token_file \in [ScopeNames -> {"absent"} \cup StoredTokens]
    /\ creds = "None"
    /\ credentials_json_content \in Contents
    /\ credentials_file \in BOOLEAN
    /\ alog = <<>>
    /\ apc = "start"
    /\ service = "None"

NextAuth ==
    \/ GetGmailServiceLoad
    \/ RefreshSucceeds \/ RefreshFails
    \/ FlowCreated \/ NoFlowReturnsNone
    \/ FlowCompletes \/ FlowRaises
    \/ WriteToken
    \/ BuildSucceeds \/ BuildFails

SpecAuth == InitAuth /\ [][NextAuth]_vars

----------------------------------------------------------------------------
(* The sender strings: extract_email_from_sender (counter) and              *)
(* extract_domain_from_sender (labeler).  A string is the sequence of its   *)
(* characters.                                                              *)

SenderOps == {"extract_email_from_sender", "extract_domain_from_sender"}

Alphabet == {"<", ">", "@", ".", " ", "a", "A"}

Whitespace == {" "}

Strings == UNION {[1 .. n -> Alphabet] : n \in 0 .. MaxStr}

(* The argument: a string, or a value that is not a string (isstr FALSE). *)
Str(s) == [isstr |-> TRUE, s |-> s]

NotAStr == [isstr |-> FALSE, s |-> <<>>]

(* The value returned: a string, or None. *)
Some(s) == [none |-> FALSE, s |-> s]

None == [none |-> TRUE, s |-> <<>>]

Contains(c, s) == \E k \in DOMAIN s : s[k] = c

(* [^>]+ from position k: the length of the longest run of characters       *)
(* other than ">".                                                          *)
RECURSIVE RunLength(_, _)
RunLength(s, k) ==
    IF k > Len(s) \/ s[k] = ">" THEN 0 ELSE 1 + RunLength(s, k + 1)

(* <([^>]+)> matches at position k. *)
MatchAt(s, k) ==
    /\ s[k] = "<"
    /\ RunLength(s, k + 1) >= 1
    /\ k + 1 + RunLength(s, k + 1) <= Len(s)

NoMatch == [found |-> FALSE, group |-> <<>>]

(* re.search(r'<([^>]+)>', s): the leftmost match, with its group 1. *)
RECURSIVE SearchFrom(_, _)
SearchFrom(s, k) ==
    IF k > Len(s) THEN NoMatch
    ELSE IF MatchAt(s, k)
         THEN [found |-> TRUE, group |-> SubSeq(s, k + 1, k + RunLength(s, k + 1))]
         ELSE SearchFrom(s, k + 1)

ReSearch(s) == SearchFrom(s, 1)

(* str.strip() *)
RECURSIVE LStrip(_)
LStrip(s) == IF s # <<>> /\ Head(s) \in Whitespace THEN LStrip(Tail(s)) ELSE s

RECURSIVE RStrip(_)
RStrip(s) ==
    IF s # <<>> /\ s[Len(s)] \in Whitespace THEN RStrip(SubSeq(s, 1, Len(s) - 1)) ELSE s

Strip(s) == RStrip(LStrip(s))

(* str.lower() *)
LowerKeepsCase(s) == s

Lower(s) == [k \in DOMAIN s |-> IF s[k] = "A" THEN "a" ELSE s[k]]

(* s.split('@')[-1] *)
RECURSIVE SplitLast(_)
SplitLast(s) ==
    IF s = <<>> \/ s[Len(s)] = "@" THEN <<>>
    ELSE Append(SplitLast(SubSeq(s, 1, Len(s) - 1)), s[Len(s)])

(* Lines 22-26 of the counter, 95-100 of the labeler: the candidate address *)
CandidateIgnoresBrackets(s) == Strip(s)

Candidate(s) == IF ReSearch(s).found THEN ReSearch(s).group ELSE Strip(s)

extract_email_from_sender(sender) ==
    IF ~ sender.isstr THEN None
    ELSE LET email == Candidate(sender.s)
         IN  IF Contains("@", email) /\ Contains(".", SplitLast(email))
             THEN Some(Lower(email))
             ELSE Some(Lower(sender.s))

extract_domain_from_sender(sender) ==
    IF ~ sender.isstr THEN None
    ELSE LET email == Candidate(sender.s)
         IN  IF Contains("@", email) THEN Some(SplitLast(email)) ELSE None

ExtractEmail ==
    /\ op = "extract_email_from_sender"
    /\ pstate = "called"
    /\ output' = extract_email_from_sender(input)
    /\ pstate' = "returned"
    /\ UNCHANGED <<op, backoffVars, raised, trace, batchVars, listVars, labelVars, authVars,
                   input>>

ExtractDomain ==
    /\ op = "extract_domain_from_sender"
    /\ pstate = "called"
    /\ output' = extract_domain_from_sender(input)
    /\ pstate' = "returned"
    /\ UNCHANGED <<op, backoffVars, raised, trace, batchVars, listVars, labelVars, authVars,
                   input>>

InitSender ==
    /\ op \in SenderOps
    /\ IdleBackoff
    /\ raised = NoError
    /\ trace = <<>>
    /\ IdleBatch
    /\ IdleList
    /\ IdleLabel
    /\ IdleAuth
    /\ input \in {Str(s) : s \in Strings} \cup {NotAStr}
    /\ output = None
    /\ pstate = "called"

NextSender == ExtractEmail \/ ExtractDomain

SpecSender == InitSender /\ [][NextSender]_vars

----------------------------------------------------------------------------
(* The archiver's get_message_body.  A payload is a record: hasParts tells  *)
(* whether it has the key 'parts', hasData whether its body has the key     *)
(* 'data'; data is the base64url text of the body.                          *)

Leaf(mimeType, hasData, data) ==
    [mimeType |-> mimeType, hasParts |-> FALSE, parts |-> <<>>,
     hasData |-> hasData, data |-> data]

Multipart(parts) ==
    [mimeType |-> "multipart/mixed", hasParts |-> TRUE, parts |-> parts,
     hasData |-> FALSE, data |-> ""]

(* base64.urlsafe_b64decode(data).decode('utf-8', errors='ignore') *)
Decode(data) ==
    CASE data = "cGxhaW4gdGV4dA==" -> "plain text"
      [] data = "PHA-aHRtbCB0ZXh0PC9wPg==" -> "<p>html text</p>"
      [] data = "PGJyPg==" -> "<br>"
      [] OTHER -> ""

(* BeautifulSoup(html_content, "html.parser").get_text(separator='\n', strip=True) *)
GetText(html_content) ==
    CASE html_content = "<p>html text</p>" -> "html text"
      [] html_content = "<br>" -> ""
      [] OTHER -> html_content

Leaves ==
    {Leaf("text/plain", TRUE, "cGxhaW4gdGV4dA=="),
     Leaf("text/plain", TRUE, ""),
     Leaf("text/html", TRUE, "PHA-aHRtbCB0ZXh0PC9wPg=="),
     Leaf("text/html", TRUE, "PGJyPg=="),
     Leaf("image/png", FALSE, "")}

SeqsUpTo(S, n) == UNION {[1 .. k -> S] : k \in 0 .. n}

RECURSIVE Payloads(_)
Payloads(depth) ==
    IF depth = 0 THEN Leaves
    ELSE Leaves \cup {Multipart(parts) : parts \in SeqsUpTo(Payloads(depth - 1), MaxParts)}

First(S) == CHOOSE k \in S : \A j \in S : k <= j

(* `if body` of line 34 *)
NestedFound(body) == body # ""

RECURSIVE get_message_body(_)
get_message_body(payload) ==
    IF payload.hasParts
    THEN LET parts  == payload.parts
             plain  == {k \in DOMAIN parts :
                           parts[k].mimeType = "text/plain" /\ parts[k].hasData}
             nested == {k \in DOMAIN parts :
                           parts[k].hasParts /\ NestedFound(get_message_body(parts[k]))}
             html   == {k \in DOMAIN parts :
                           parts[k].mimeType = "text/html" /\ parts[k].hasData}
         IN  IF plain # {} THEN Decode(parts[First(plain)].data)
             ELSE IF nested # {} THEN get_message_body(parts[First(nested)])
             ELSE IF html # {} THEN GetText(Decode(parts[First(html)].data))
             ELSE ""
    ELSE IF payload.hasData
         THEN IF payload.mimeType = "text/plain" THEN Decode(payload.data)
              ELSE IF payload.mimeType = "text/html" THEN GetText(Decode(payload.data))
              ELSE ""
         ELSE ""

GetMessageBody ==
    /\ op = "get_message_body"
    /\ pstate = "called"
    /\ output' = get_message_body(input)
    /\ pstate' = "returned"
    /\ UNCHANGED <<op, backoffVars, raised, trace, batchVars, listVars, labelVars, authVars,
                   input>>

InitBody ==
    /\ op = "get_message_body"
    /\ IdleBackoff
    /\ raised = NoError
    /\ trace = <<>>
    /\ IdleBatch
    /\ IdleList
    /\ IdleLabel
    /\ IdleAuth
    /\ input \in Payloads(MaxDepth)
    /\ output = ""
    /\ pstate = "called"

NextBody == GetMessageBody

SpecBody == InitBody /\ [][NextBody]_vars

----------------------------------------------------------------------------
(* Claims about execute_batch_with_backoff, checked under SpecBackoff *)

(* The number of the attempt (1-based) that made the k-th event of the trace. *)
AttemptOf(k) == Len(Executes(SubSeq(trace, 1, k)))

C2_ExhaustedRaisesOriginal ==
    LET ex == Executes(trace)
        sl == BackoffSleeps(trace)
        N  == Len(ex)
    IN  ( /\ N >= 1
          /\ \A k \in 1 .. N : ex[k].status \in RetriableStatuses )
        => /\ N <= max_retries
           /\ Len(sl) <= max_retries - 1
           /\ bstate # "returned"
           /\ bstate = "running" => (N < max_retries /\ Len(sl) = N)
           /\ bstate = "raised" =>
                 /\ N = max_retries
                 /\ Len(sl) = max_retries - 1
                 /\ trace[Len(trace)].kind = "execute"
                 /\ raised = HttpError(Len(trace), trace[Len(trace)].status)

C2_Witness ==
    /\ bstate = "raised"
    /\ max_retries = DefaultMaxRetries
    /\ Len(Executes(trace)) = 5
    /\ Len(BackoffSleeps(trace)) = 4
    /\ \A k \in 1 .. Len(trace) : trace[k].status \in RetriableStatuses \cup {0}

(* C3: a call of batch.execute that fails with a status that is not retriable *)
(* is the last event of the invocation: the error is raised at that attempt,  *)
(* with no sleep and no further call after it, whatever the attempt number.   *)
C3_NonRetriableRaisedAtOnce ==
    \A k \in 1 .. Len(trace) :
        ( /\ trace[k].kind = "execute"
          /\ trace[k].status # OK
          /\ trace[k].status \notin RetriableStatuses )
        => /\ k = Len(trace)
           /\ bstate = "raised"
           /\ raised = HttpError(k, trace[k].status)

C3_Witness ==
    /\ bstate = "raised"
    /\ raised.status = 404
    /\ Len(Executes(trace)) = 3
    /\ Len(BackoffSleeps(trace)) = 2

(* C4: every rate-limit status (403, 429) and every server-error status (any  *)
(* 5xx) is transient: a failure with such a status on an attempt before the   *)
(* last one is followed by a sleep rather than being raised at once.          *)
TransientClass(status) == status \in {403, 429} \/ status \in 500 .. 599

C4_Every5xxIsRetried ==
    \A k \in 1 .. Len(trace) :
        ( /\ trace[k].kind = "execute"
          /\ TransientClass(trace[k].status)
          /\ AttemptOf(k) < max_retries )
        => /\ k < Len(trace)
           /\ trace[k + 1].kind = "backoff_sleep"
           /\ ~ (bstate = "raised" /\ raised.id = k)

----------------------------------------------------------------------------
(* Claims about the batched operations, checked under SpecBatch *)

Range(seq) == {seq[k] : k \in 1 .. Len(seq)}

Flatten(seqs) ==
    LET f[k \in 0 .. Len(seqs)] == IF k = 0 THEN <<>> ELSE f[k - 1] \o seqs[k]
    IN  f[Len(seqs)]

IsExecute(p) == trace[p].kind = "execute"

(* The chunks whose batch was executed without an HttpError. *)
OkChunks == {trace[p].chunk : p \in {q \in 1 .. Len(trace) : IsExecute(q) /\ trace[q].status = OK}}

(* The items the callback was called for, in delivery order. *)
DeliveredItems ==
    LET f[k \in 0 .. Len(batches)] ==
            IF k = 0 THEN <<>>
            ELSE IF k \in OkChunks THEN f[k - 1] \o batches[k] ELSE f[k - 1]
    IN  f[Len(batches)]

FirstExecuteOfChunk(p) ==
    /\ IsExecute(p)
    /\ \A q \in 1 .. p - 1 : ~ (IsExecute(q) /\ trace[q].chunk = trace[p].chunk)

(* C5: in every batched operation a chunk whose first execution fails with a *)
(* transient status is executed again before the operation moves to the     *)
(* next chunk or gives up on it: the execution of that chunk is still under  *)
(* way, or a second execution of the same chunk follows in the trace.        *)
C5_EveryBatchRetried ==
    \A p \in 1 .. Len(trace) :
        ( /\ FirstExecuteOfChunk(p)
          /\ trace[p].status \in RetriableStatuses )
        => \/ /\ fstate = "backoff"
              /\ bstate = "running"
              /\ Len(batches) = trace[p].chunk
              /\ \A r \in p + 1 .. Len(trace) : trace[r].kind = "backoff_sleep"
           \/ \E q \in p + 1 .. Len(trace) :
                 /\ IsExecute(q)
                 /\ trace[q].chunk = trace[p].chunk
                 /\ \A r \in p + 1 .. q - 1 : trace[r].kind = "backoff_sleep"

(* C6: between the execution of chunk k, whatever its outcome, and the first *)
(* request of chunk k+1 there is always an inter-chunk sleep.                *)
C6_SleepAfterEveryChunk ==
    \A p \in 1 .. Len(trace) : \A q \in p + 1 .. Len(trace) :
        ( /\ IsExecute(p)
          /\ IsExecute(q)
          /\ trace[q].chunk = trace[p].chunk + 1 )
        => \E r \in p + 1 .. q - 1 : trace[r].kind = "chunk_sleep"

(* C7: called with an empty identifier list, fetch_senders_in_batches,       *)
(* apply_label_to_emails_batch and fetch_and_save_messages create no batch,  *)
(* make no network call, never sleep, never raise and end with an empty      *)
(* result; fetch_email_headers, whose listing comes back empty, creates no   *)
(* batch and makes no call beyond the listing itself.                        *)
C7_EmptyListNoCalls ==
    message_ids = <<>> =>
        /\ batches = <<>>
        /\ acc = <<>>
        /\ fstate \in {"start", "loop", "returned"}
        /\ op # "fetch_headers" => trace = <<>>
        /\ op = "fetch_headers" => (Len(trace) <= 1 /\ Executes(trace) = <<>>)
        /\ (fstate = "loop" /\ op # "fetch_headers") => ENABLED LoopReturn

C7_Witness ==
    /\ message_ids = <<>>
    /\ fstate = "returned"
    /\ op = "archiver"

(* C8: for a list of n identifiers, an operation that returns has created    *)
(* exactly ceil(n/25) batches, each of 1 to 25 items, whose concatenation in *)
(* issue order is the input list, so that every identifier is in exactly one *)
(* batch; when no execution failed, batch.execute was called ceil(n/25)      *)
(* times, once per batch and in order.                                       *)
C8_Chunking ==
    LET n  == Len(message_ids)
        ex == Executes(trace)
    IN  ( /\ fstate = "returned"
          /\ op = "fetch_headers" => (trace # <<>> /\ trace[1].status = OK) )
        => /\ Len(batches) = CeilDiv(n, batch_size)
           /\ \A b \in 1 .. Len(batches) :
                 Len(batches[b]) >= 1 /\ Len(batches[b]) <= batch_size
           /\ Flatten(batches) = message_ids
           /\ \A m \in 1 .. n :
                 Cardinality({b \in 1 .. Len(batches) : message_ids[m] \in Range(batches[b])}) = 1
           /\ \A b \in 1 .. Len(batches) :
                 Cardinality(Range(batches[b])) = Len(batches[b])
           /\ (\A k \in 1 .. Len(ex) : ex[k].status = OK)
                 => [k \in 1 .. Len(ex) |-> ex[k].chunk] = [k \in 1 .. Len(batches) |-> k]

C8_Witness ==
    /\ fstate = "returned"
    /\ Len(message_ids) = batch_size + 1
    /\ Len(batches) = 2
    /\ Len(batches[1]) = batch_size
    /\ Len(batches[2]) = 1
    /\ \A k \in 1 .. Len(trace) : trace[k].status \in {0, OK}

(* C9 as stated: the accumulated result holds one entry for each item        *)
(* delivered without exception and none for a failed item.                   *)
C9_OneEntryPerDeliveredItem ==
    fstate = "returned" /\ op # "apply_label"
        => acc = SelectSeq(DeliveredItems, LAMBDA m : ~ ItemException(m))

(* C9 as amended: a per-item failure aborts nothing; the accumulated result  *)
(* holds, in delivery order, one entry for each item delivered without       *)
(* exception, except that fetch_senders_in_batches adds none for a message   *)
(* without a From header, and no entry for a failed item; its length is at   *)
(* most the number of identifiers; and an operation whose batches all        *)
(* executed has been delivered every item of every chunk.                    *)
C9_FailedItemsOmitted ==
    /\ op \in {"fetch_headers", "archiver"}
          => acc = SelectSeq(DeliveredItems, LAMBDA m : ~ ItemException(m))
    /\ op = "fetch_senders"
          => acc = SelectSeq(DeliveredItems, LAMBDA m : ~ ItemException(m) /\ HasFrom(m))
    /\ Len(acc) <= Len(message_ids)
    /\ raised = NoError => fstate # "raised"
    /\ ( /\ fstate = "returned"
         /\ \A p \in 1 .. Len(trace) : trace[p].status \in {0, OK}
         /\ op = "fetch_headers" => trace # <<>> )
          => DeliveredItems = message_ids

C9_Witness ==
    /\ fstate = "returned"
    /\ op = "fetch_senders"
    /\ faultKind = "deleted"
    /\ faultId = 2
    /\ Len(batches) = 2
    /\ Len(acc) = Len(message_ids) - 1

----------------------------------------------------------------------------
(* Claims about the paginated listing, checked under SpecList *)

(* The identifiers the listing endpoint returns without a limit. *)
AllListed == Flatten(pages)

IsPrefix(a, b) == Len(a) <= Len(b) /\ a = SubSeq(b, 1, Len(a))

NoPageFailed == \A p \in 1 .. Len(trace) : trace[p].status \in {0, OK}

(* C10: for every integer limit, 0 and negative values included, the list    *)
(* get_all_message_ids returns has at most max(limit, 0) identifiers and is  *)
(* a prefix of what the listing returns without a limit; with limit None the *)
(* whole listing is returned.                                                *)
C10_LimitCapsResult ==
    (op = "get_all_message_ids" /\ lstate = "returned")
        => /\ ~ limit.none =>
                 /\ Len(all_message_ids) <= Max(limit.n, 0)
                 /\ IsPrefix(all_message_ids, AllListed)
           /\ (limit.none /\ NoPageFailed) => all_message_ids = AllListed

(* What the code does keep: a positive limit caps the result, which is       *)
(* always a prefix of the listing.                                           *)
PositiveLimitCapsResult ==
    (op = "get_all_message_ids" /\ lstate = "returned")
        => /\ IsPrefix(all_message_ids, AllListed)
           /\ (~ limit.none /\ limit.n > 0) => Len(all_message_ids) <= limit.n
           /\ (limit.none /\ NoPageFailed) => all_message_ids = AllListed

(* The page requests made so far, in order. *)
ListCalls == SelectSeq(trace, LAMBDA e : e.kind = "list")

(* The identifiers of pages 1..k, in order. *)
PagesUpTo(k) == Flatten(SubSeq(pages, 1, k))

(* seq cut to at most max(n, 0) elements. *)
CapTo(seq, n) == SubSeq(seq, 1, Min(Max(n, 0), Len(seq)))

(* The listing ended on a failed request, for page k. *)
FailedAtPage(k) ==
    /\ lstate = "returned"
    /\ trace # <<>>
    /\ trace[Len(trace)].kind = "list"
    /\ trace[Len(trace)].status # OK
    /\ trace[Len(trace)].chunk = k

(* C11: when the request for page k fails with an HttpError, no further page *)
(* is requested, nothing is raised, and the list returned is exactly the     *)
(* identifiers of pages 1..k-1 in order, truncated to the limit when one is  *)
(* set.                                                                      *)
C11_PartialListingOnFailure ==
    /\ \A p \in 1 .. Len(trace) :
          (trace[p].kind = "list" /\ trace[p].status # OK)
              => (p = Len(trace) /\ lstate = "returned" /\ raised = NoError)
    /\ \A k \in 1 .. Len(pages) :
          FailedAtPage(k) =>
              /\ Len(ListCalls) = k
              /\ all_message_ids = IF limit.none THEN PagesUpTo(k - 1)
                                   ELSE CapTo(PagesUpTo(k - 1), limit.n)

(* What the code keeps of C11: with no limit or a limit other than 0, the    *)
(* list returned after a failure of page k is that of pages 1..k-1.          *)
PartialListingUnlessLimitZero ==
    /\ \A p \in 1 .. Len(trace) :
          (trace[p].kind = "list" /\ trace[p].status # OK)
              => (p = Len(trace) /\ lstate = "returned" /\ raised = NoError)
    /\ \A k \in 1 .. Len(pages) :
          (FailedAtPage(k) /\ (limit.none \/ limit.n # 0)) =>
              /\ Len(ListCalls) = k
              /\ all_message_ids = PagesUpTo(k - 1)
              /\ ~ limit.none => all_message_ids = CapTo(PagesUpTo(k - 1), limit.n)

(* C20: with a listing of P pages and no failed request,                     *)
(* get_all_message_ids without limit and find_messages_in_date_range end     *)
(* after exactly P page requests, pages 1..P each requested once and in      *)
(* order, and return the whole listing; a running listing always has a next  *)
(* request to make, for the page after the last one requested; with a        *)
(* positive limit, no page is requested once the identifiers accumulated     *)
(* have reached the limit.                                                   *)
C20_ListingTerminates ==
    LET calls == ListCalls
    IN  /\ Len(calls) <= Len(pages)
        /\ \A c \in 1 .. Len(calls) : calls[c].chunk = c
        /\ lstate = "running" =>
              /\ request = Len(calls) + 1
              /\ request \in 1 .. Len(pages)
              /\ ENABLED NextList
        /\ (lstate = "returned" /\ NoPageFailed /\ limit.none) =>
              /\ Len(calls) = Len(pages)
              /\ request = 0
              /\ all_message_ids = AllListed
        /\ (~ limit.none /\ limit.n > 0) =>
              \A c \in 2 .. Len(calls) : Len(PagesUpTo(c - 1)) < limit.n

C20_Witness ==
    /\ lstate = "returned"
    /\ NoPageFailed
    /\ limit.none
    /\ Len(pages) = 3
    /\ Len(ListCalls) = 3
    /\ Len(all_message_ids) >= 3

C20_WitnessLimit ==
    /\ lstate = "returned"
    /\ ~ limit.none /\ limit.n = 2
    /\ Len(pages) = 3
    /\ Len(ListCalls) = 2
    /\ Len(AllListed) > 2

----------------------------------------------------------------------------
(* Claims about the archive file, checked under SpecBatch *)

StartMarker == "--- MESSAGE START ---"
EndMarker == "--- MESSAGE END ---"

(* The marker lines of the file, in order. *)
Markers == SelectSeq(file, LAMBDA w : w.part \in {StartMarker, EndMarker})

(* The messages delivered to the callback without exception, in order. *)
DeliveredOk == SelectSeq(DeliveredItems, LAMBDA m : ~ ItemException(m))

(* C16: fetch_and_save_messages opens the output file exactly once per run;  *)
(* the file holds, in callback-delivery order, one START ... END record per  *)
(* message delivered without exception and nothing for a failed item, so     *)
(* that START and END markers strictly alternate, starting with START.       *)
C16_ArchiveFileRecords ==
    op = "archiver" =>
        LET D == DeliveredOk
        IN  /\ fileOpens = (IF fstate = "start" THEN 0 ELSE 1)
            /\ fileOpen = (fstate \in {"loop", "backoff"})
            /\ Len(Markers) = 2 * Len(D)
            /\ \A k \in 1 .. Len(D) :
                  /\ Markers[2 * k - 1] = Write(StartMarker, D[k], "")
                  /\ Markers[2 * k] = Write(EndMarker, D[k], "")
            /\ \A p \in 1 .. Len(file) :
                  /\ file[p].id \in Range(D)
                  /\ p = 1 => file[p].part = StartMarker
                  /\ p = Len(file) => file[p].part = EndMarker
                  /\ (p > 1 /\ file[p].part = StartMarker)
                        => file[p - 1].part = EndMarker
                  /\ (p > 1 /\ file[p].part # StartMarker)
                        => (file[p - 1].id = file[p].id /\ file[p - 1].part # EndMarker)
            /\ \A m \in Range(message_ids) :
                  ItemException(m) => \A p \in 1 .. Len(file) : file[p].id # m

C16_Witness ==
    /\ op = "archiver"
    /\ fstate = "returned"
    /\ fileOpens = 1
    /\ faultKind = "deleted"
    /\ faultId = 2
    /\ Len(batches) = 2
    /\ Len(Markers) = 2 * (Len(message_ids) - 1)

----------------------------------------------------------------------------
(* Claims about the labels, checked under SpecLabel *)

IsChildName(name) == Len(name) = 2

OkCreatesOf(name) ==
    {p \in DOMAIN lcalls :
        lcalls[p].kind = "create" /\ lcalls[p].name = name /\ lcalls[p].status = OK}

(* C12: ensure_label_exists is idempotent: once a call for a name has       *)
(* returned an id, no later call for that name on the same mapping issues a *)
(* create request and each returns that id; over any sequence of calls at   *)
(* most one successful create is issued per label name.                     *)
C12_EnsureIdempotent ==
    /\ \A p \in DOMAIN lcalls :
          (lcalls[p].kind = "ensure" /\ lcalls[p].id # 0) =>
             \A q \in DOMAIN lcalls :
                (q > p /\ lcalls[q].name = lcalls[p].name) =>
                   /\ lcalls[q].kind # "create"
                   /\ lcalls[q].kind = "ensure" => lcalls[q].id = lcalls[p].id
    /\ \A name \in LabelNames : Cardinality(OkCreatesOf(name)) <= 1

(* A label is created by one call and returned again by a later one. *)
C12_Witness ==
    /\ op = "ensure_label_exists"
    /\ \E p, q \in DOMAIN lcalls :
          /\ p + 1 < q
          /\ lcalls[p].kind = "create" /\ lcalls[p].status = OK
          /\ lcalls[p + 1].kind = "ensure" /\ lcalls[p + 1].id = lcalls[p].id
          /\ lcalls[q].kind = "ensure" /\ lcalls[q].name = lcalls[p].name
          /\ lcalls[q].id = lcalls[p].id

IsChildRequest(c) ==
    \/ c.kind = "create" /\ IsChildName(c.name)
    \/ c.kind = "modify"

ParentUnavailable ==
    \E p \in DOMAIN lcalls :
        lcalls[p].kind = "ensure" /\ lcalls[p].name = parent_label_name /\ lcalls[p].id = 0

(* C13: apply_domain_labels ensures the parent label first: every step that *)
(* issues a create request for a child label or a modify request starts     *)
(* with the parent label in the mapping, and when the parent label was      *)
(* neither found nor created no child create and no modify is ever issued.  *)
C13_ParentEnsuredFirst ==
    /\ [][(op = "apply_domain_labels" /\
           \E p \in Len(lcalls) + 1 .. Len(lcalls') : IsChildRequest(lcalls'[p]))
             => InMap(parent_label_name)]_vars
    /\ []((op = "apply_domain_labels" /\ ParentUnavailable) =>
             /\ \A p \in DOMAIN lcalls : ~ IsChildRequest(lcalls[p])
             /\ astate = "returned")

(* The parent label is created, then a child label, then messages are       *)
(* labelled.                                                                *)
C13_Witness ==
    /\ op = "apply_domain_labels"
    /\ \E p, q, r \in DOMAIN lcalls :
          /\ p < q /\ q < r
          /\ lcalls[p].kind = "create" /\ lcalls[p].name = parent_label_name
          /\ lcalls[p].status = OK
          /\ lcalls[q].kind = "create" /\ IsChildName(lcalls[q].name)
          /\ lcalls[r].kind = "modify"

(* The parent label can be neither found nor created. *)
C13_WitnessUnavailable ==
    /\ op = "apply_domain_labels"
    /\ ParentUnavailable
    /\ Len(domain_groups) > 0
    /\ astate = "returned"

----------------------------------------------------------------------------
(* Claims about get_gmail_service, checked under SpecAuth *)

StepsOf(step) == {p \in DOMAIN alog : alog[p].step = step}

(* No valid token was loaded, and none was obtained by a refresh: the       *)
(* function is at, or past, the choice of the flow.                         *)
NoValidToken ==
    /\ alog # <<>>
    /\ ~ Valid(alog[1].creds)
    /\ StepsOf("refresh") = {}
    /\ apc # "refresh"

MalformedContent == credentials_json_content = "not json"

NoCredentialSource == ~ Given(credentials_json_content) /\ ~ credentials_file

(* C14: with no valid token loaded or refreshed, get_gmail_service returns  *)
(* no handle, starts no authorization flow and writes no token file when    *)
(* the inline content is not valid JSON (whether or not the credentials     *)
(* file exists), and when no inline content is given and no credentials     *)
(* file exists.                                                             *)
C14_NoSourceNoFlow ==
    (NoValidToken /\ (MalformedContent \/ NoCredentialSource)) =>
        /\ apc \in {"source", "returned"}
        /\ StepsOf("flow") = {}
        /\ StepsOf("content") \cup StepsOf("file") = {}
        /\ StepsOf("write") = {}
        /\ service = "None"
        /\ token_file[scope_name] \in {"absent", alog[1].creds}

(* Content that is not JSON, with a credentials file present. *)
C14_Witness ==
    /\ op = "get_gmail_service"
    /\ NoValidToken
    /\ MalformedContent
    /\ credentials_file
    /\ apc = "returned"

(* No content and no credentials file. *)
C14_WitnessNoSource ==
    /\ op = "get_gmail_service"
    /\ NoValidToken
    /\ NoCredentialSource
    /\ apc = "returned"

RefreshFailed == StepsOf("RefreshError") # {}

(* After a RefreshError: the stale file is removed before anything of the   *)
(* flow, the token written is the one the flow returned, it is written to   *)
(* the token file of the scope before the build, and the handle is built on *)
(* it.                                                                      *)
RefreshFailureOrder ==
    \A e \in StepsOf("RefreshError") :
        /\ Expired(alog[e].creds)
        /\ alog[e + 1].step = "remove"
        /\ \A p \in StepsOf("flow") \cup StepsOf("content") \cup StepsOf("file") : p > e + 1
        /\ StepsOf("write") = {} => token_file[scope_name] = "absent"
        /\ \A w \in StepsOf("write") :
              /\ alog[w].creds = "fresh"
              /\ alog[w].scope = scope_name
              /\ token_file[scope_name] = "fresh"
              /\ \E f \in StepsOf("flow") : f < w /\ alog[f].creds = "fresh"
        /\ \A b \in StepsOf("build") \cup StepsOf("HttpError") :
              /\ alog[b].creds = "fresh"
              /\ \E w \in StepsOf("write") : w < b
        /\ service \in {"None", "fresh"}

FunctionLeft == apc \in {"returned", "raised"}

SourceAvailable ==
    FlowSource(credentials_json_content, credentials_file) \in {"content", "file"}

----------------------------------------------------------------------------
(* Claims about the sender strings, checked under SpecSender *)

(* s[i] .. s[j] is a bracketed address: "<", one or more characters other   *)
(* than ">", then ">".                                                      *)
IsPair(s, a, b) ==
    /\ a \in DOMAIN s /\ b \in DOMAIN s
    /\ s[a] = "<" /\ s[b] = ">"
    /\ b > a + 1
    /\ \A k \in a + 1 .. b - 1 : s[k] # ">"

OpensPair(s, a) == \E b \in DOMAIN s : IsPair(s, a, b)

HasBracketed(s) == \E a \in DOMAIN s : OpensPair(s, a)

(* The content of the first bracket pair of a string that has one. *)
FirstBracketed(s) ==
    LET a == CHOOSE a \in DOMAIN s :
                 OpensPair(s, a) /\ \A k \in 1 .. a - 1 : ~ OpensPair(s, k)
        b == CHOOSE b \in DOMAIN s : IsPair(s, a, b)
    IN  SubSeq(s, a + 1, b - 1)

(* s without its leading and trailing whitespace. *)
LeadingWhitespace(s) ==
    CHOOSE a \in 0 .. Len(s) :
        /\ \A k \in 1 .. a : s[k] \in Whitespace
        /\ a < Len(s) => s[a + 1] \notin Whitespace

TrailingWhitespace(s) ==
    CHOOSE b \in 0 .. Len(s) :
        /\ \A k \in Len(s) - b + 1 .. Len(s) : s[k] \in Whitespace
        /\ b < Len(s) => s[Len(s) - b] \notin Whitespace

Trimmed(s) ==
    IF \A k \in DOMAIN s : s[k] \in Whitespace THEN <<>>
    ELSE SubSeq(s, LeadingWhitespace(s) + 1, Len(s) - TrailingWhitespace(s))

(* The address of a sender string: the bracketed content if there is one,   *)
(* the trimmed whole string otherwise.                                      *)
AddressOf(s) == IF HasBracketed(s) THEN FirstBracketed(s) ELSE Trimmed(s)

(* t is s with every upper-case letter replaced by its lower-case one. *)
IsLowerOf(t, s) ==
    /\ Len(t) = Len(s)
    /\ ~ Contains("A", t)
    /\ \A k \in DOMAIN s : t[k] = s[k] \/ (s[k] = "A" /\ t[k] = "a")

(* d is what follows the last "@" of a. *)
IsAfterLastAt(d, a) ==
    /\ ~ Contains("@", d)
    /\ \E k \in DOMAIN a : a[k] = "@" /\ d = SubSeq(a, k + 1, Len(a))

HasDotAfterLastAt(a) ==
    \E k \in DOMAIN a :
        /\ a[k] = "@"
        /\ \A j \in k + 1 .. Len(a) : a[j] # "@"
        /\ \E j \in k + 1 .. Len(a) : a[j] = "."

EmailReturned ==
    op = "extract_email_from_sender" /\ pstate = "returned" /\ input.isstr

DomainReturned ==
    op = "extract_domain_from_sender" /\ pstate = "returned" /\ input.isstr

(* C17, as stated: for a sender string with a bracketed address             *)
(* extract_email_from_sender returns exactly the content of the first       *)
(* bracket pair, and for a string without one the whole string trimmed.     *)
C17_BracketedOrTrimmed ==
    EmailReturned =>
        /\ ~ output.none
        /\ IF HasBracketed(input.s)
           THEN output.s = FirstBracketed(input.s)
           ELSE output.s = Trimmed(input.s)

(* C17, amended: the address (bracketed content, else trimmed string) is    *)
(* returned lower-cased when it has an "@" and a "." after its last "@";    *)
(* otherwise the whole original string is returned lower-cased, untrimmed.  *)
C17_LowerCasedAddress ==
    EmailReturned =>
        /\ ~ output.none
        /\ LET address == AddressOf(input.s)
           IN  IF HasDotAfterLastAt(address)
               THEN IsLowerOf(output.s, address)
               ELSE IsLowerOf(output.s, input.s)

(* A bracketed address with an upper-case letter is returned lower-cased. *)
C17_Witness ==
    /\ EmailReturned
    /\ HasBracketed(input.s)
    /\ Contains("A", AddressOf(input.s))
    /\ HasDotAfterLastAt(AddressOf(input.s))
    /\ output.s # AddressOf(input.s)

(* An address that is not one: the untrimmed string comes back. *)
C17_WitnessFallback ==
    /\ EmailReturned
    /\ ~ HasBracketed(input.s)
    /\ ~ HasDotAfterLastAt(AddressOf(input.s))
    /\ output.s # Trimmed(input.s)

(* C18: extract_domain_from_sender returns what follows the last "@" of the *)
(* address (bracketed content if present, trimmed whole string otherwise),  *)
(* and None exactly when the address has no "@".                            *)
C18_DomainAfterLastAt ==
    DomainReturned =>
        LET address == AddressOf(input.s)
        IN  /\ output.none <=> ~ Contains("@", address)
            /\ ~ output.none => IsAfterLastAt(output.s, address)

(* A bracketed address with two "@" inside a longer string. *)
C18_Witness ==
    /\ DomainReturned
    /\ HasBracketed(input.s)
    /\ \E j, k \in DOMAIN AddressOf(input.s) :
          j < k /\ AddressOf(input.s)[j] = "@" /\ AddressOf(input.s)[k] = "@"
    /\ ~ output.none
    /\ output.s # <<>>

----------------------------------------------------------------------------
(* Claims about get_message_body, checked under SpecBody *)

(* The parts of a payload at any depth, the payload itself included. *)
RECURSIVE PartsOf(_)
PartsOf(payload) ==
    {payload} \cup UNION {PartsOf(payload.parts[k]) : k \in DOMAIN payload.parts}

PlainParts(payload) ==
    {part \in PartsOf(payload) : part.mimeType = "text/plain" /\ part.hasData}

HtmlParts(payload) ==
    {part \in PartsOf(payload) : part.mimeType = "text/html" /\ part.hasData}

BodyReturned == op = "get_message_body" /\ pstate = "returned"

(* C19: when some part of the payload, at any depth, is text/plain with     *)
(* body data, get_message_body returns the decoded content of a text/plain  *)
(* part; the stripped text of a text/html part is returned only when the    *)
(* payload holds no text/plain part with data.                              *)
C19_PrefersPlainText ==
    BodyReturned =>
        IF PlainParts(input) # {}
        THEN output \in {Decode(part.data) : part \in PlainParts(input)}
        ELSE output \in {GetText(Decode(part.data)) : part \in HtmlParts(input)} \cup {""}

(* What does hold: a text/plain part with data directly under the payload,  *)
(* or the payload being one, is returned before anything else.              *)
PlainPreferredAmongDirectParts ==
    BodyReturned =>
        /\ (input.mimeType = "text/plain" /\ input.hasData) => output = Decode(input.data)
        /\ \A k \in DOMAIN input.parts :
              (input.parts[k].mimeType = "text/plain" /\ input.parts[k].hasData) =>
                 output \in {Decode(part.data) : part \in PlainParts(input)}

----------------------------------------------------------------------------
(* Claims about a failing chunk and about retries of the archiver, checked  *)
(* under SpecBatch                                                          *)

(* The records of the messages of the chunks before chunk k that were       *)
(* delivered without exception.                                             *)
RecordsBefore(k) ==
    LET D == SelectSeq(Flatten(SubSeq(batches, 1, k - 1)), LAMBDA m : ~ ItemException(m))
    IN  Flatten([j \in 1 .. Len(D) |-> ArchiveWrites(D[j])])

(* C21: when execute_batch_with_backoff raises for chunk k of the archiver, *)
(* no request is issued for a later chunk, the exception leaves             *)
(* fetch_and_save_messages, and the output file is closed holding exactly   *)
(* the records of the messages delivered in the chunks before k.            *)
C21_ChunkFailureStopsArchiver ==
    (op = "archiver" /\ bstate = "raised") =>
        LET k == Len(batches)
        IN  /\ fstate \in {"backoff", "raised"}
            /\ raised # NoError
            /\ trace[Len(trace)].kind = "execute"
            /\ trace[Len(trace)].chunk = k
            /\ trace[Len(trace)].status = raised.status
            /\ \A p \in 1 .. Len(trace) : trace[p].chunk <= k
            /\ file = RecordsBefore(k)
            /\ fstate = "raised" => (~ fileOpen /\ fileOpens = 1 /\ ~ ENABLED NextBatch)

(* The second chunk fails after the first was archived. *)
C21_Witness ==
    /\ op = "archiver"
    /\ fstate = "raised"
    /\ Len(batches) = 2
    /\ Len(message_ids) > batch_size
    /\ Len(file) > 0

(* The positions of the file where a record starts, and the messages the    *)
(* records are of.                                                          *)
RecordStarts == {p \in 1 .. Len(file) : file[p].part = StartMarker}

RecordIds == {file[p].id : p \in RecordStarts}

RetriedChunks == {trace[p].chunk : p \in {q \in 1 .. Len(trace) : trace[q].kind = "backoff_sleep"}}

(* C26: whatever failures and retries occur in execute_batch_with_backoff,  *)
(* each message identifier of a duplicate-free list has at most one record  *)
(* in the archive file (an execution that raises delivers nothing): there   *)
(* are as many records as messages with a record, and a chunk archived      *)
(* after retries has a record for each of its messages delivered without    *)
(* exception.                                                               *)
C26_NoDuplicateRecords ==
    op = "archiver" =>
        /\ Cardinality(RecordStarts) = Cardinality(RecordIds)
        /\ RecordIds \subseteq Range(message_ids)
        /\ \A k \in RetriedChunks \cap OkChunks :
              {m \in Range(batches[k]) : ~ ItemException(m)} \subseteq RecordIds

(* A chunk is archived after two failed attempts. *)
C26_Witness ==
    /\ op = "archiver"
    /\ \E p \in 1 .. Len(trace) :
          /\ p + 4 <= Len(trace)
          /\ trace[p].kind = "execute" /\ trace[p].status # OK
          /\ trace[p + 2].kind = "execute" /\ trace[p + 2].status # OK
          /\ trace[p + 4].kind = "execute" /\ trace[p + 4].status = OK
          /\ trace[p + 4].chunk = trace[p].chunk
          /\ Len(file) > 0

----------------------------------------------------------------------------
(* A claim about the return of execute_batch_with_backoff, checked under    *)
(* SpecBackoff                                                              *)

SomeExecuteSucceeded == \E p \in 1 .. Len(trace) : IsExecute(p) /\ trace[p].status = OK

(* C25: for every value of max_retries, zero and negative ones included,    *)
(* whenever execute_batch_with_backoff returns normally some call of        *)
(* batch.execute returned without error.                                    *)
C25_ReturnMeansExecuted ==
    (op = "backoff" /\ bstate = "returned") => SomeExecuteSucceeded

(* What does hold: the same with max_retries of at least 1. *)
ReturnMeansExecutedWithRetries ==
    (op = "backoff" /\ bstate = "returned" /\ max_retries >= 1) => SomeExecuteSucceeded

----------------------------------------------------------------------------
(* Further claims about the labels, checked under SpecLabel *)

IsFailedCreate(c) == c.kind = "create" /\ c.status # OK

EnsuresOf(name) == {p \in DOMAIN lcalls : lcalls[p].kind = "ensure" /\ lcalls[p].name = name}

(* C22: over any sequence of ensure_label_exists calls the mapping only     *)
(* grows and no entry is changed or removed; a call whose create request    *)
(* fails returns no id and leaves the mapping as it was, so that the next   *)
(* call for the name issues a create request again.                         *)
C22_MappingOnlyGrows ==
    /\ [][/\ \A n \in DOMAIN all_labels_map :
               n \in DOMAIN all_labels_map' /\ all_labels_map'[n] = all_labels_map[n]
          /\ (\E p \in Len(lcalls) + 1 .. Len(lcalls') : IsFailedCreate(lcalls'[p]))
                => all_labels_map' = all_labels_map]_vars
    /\ [](\A p \in DOMAIN lcalls :
             IsFailedCreate(lcalls[p]) =>
                /\ lcalls[p].id = 0
                /\ lcalls[p + 1].kind = "ensure"
                /\ lcalls[p + 1].name = lcalls[p].name
                /\ lcalls[p + 1].id = 0
                /\ \A q \in EnsuresOf(lcalls[p].name) :
                      (q > p + 1 /\ \A r \in EnsuresOf(lcalls[p].name) : ~ (p + 1 < r /\ r < q))
                         => (lcalls[q - 1].kind = "create"
                             /\ lcalls[q - 1].name = lcalls[p].name))

(* A create fails, and the next call for the name creates the label. *)
C22_Witness ==
    /\ op = "ensure_label_exists"
    /\ \E p, q \in DOMAIN lcalls :
          /\ p < q
          /\ IsFailedCreate(lcalls[p])
          /\ lcalls[q].kind = "create" /\ lcalls[q].status = OK
          /\ lcalls[q].name = lcalls[p].name
          /\ lcalls[q].name \in DOMAIN all_labels_map

ModifiesOf(name) == {p \in DOMAIN lcalls : lcalls[p].kind = "modify" /\ lcalls[p].name = name}

(* The message ids of the modify requests issued for a label, in order. *)
ModifiedIds(name) ==
    LET requests == SelectSeq(lcalls, LAMBDA c : c.kind = "modify" /\ c.name = name)
    IN  Flatten([k \in 1 .. Len(requests) |-> requests[k].ids])

(* The groups the loop has gone through. *)
GroupsDone == IF astate \in {"groups", "returned"} THEN 1 .. g - 1 ELSE {}

(* C23: with the parent label known, for every domain group with a          *)
(* non-empty domain: when the child label is found or created, each message *)
(* of the group is in exactly one modify request, which adds the child      *)
(* label's id only and removes nothing; when it cannot be created no modify *)
(* request is issued for the group, and the later groups are processed.     *)
C23_GroupsLabelled ==
    (op = "apply_domain_labels" /\ ~ ParentUnavailable) =>
        /\ astate = "returned" => g = Len(domain_groups) + 1
        /\ \A p \in DOMAIN lcalls :
              lcalls[p].kind = "modify" =>
                 \E k \in GroupsDone :
                    lcalls[p].name = NestedLabelName(parent_label_name, domain_groups[k].domain)
        /\ \A k \in GroupsDone :
              LET domain == domain_groups[k].domain
                  ids    == domain_groups[k].ids
                  name   == NestedLabelName(parent_label_name, domain)
              IN  IF domain = ""
                  THEN EnsuresOf(name) = {} /\ ModifiesOf(name) = {}
                  ELSE /\ Cardinality(EnsuresOf(name)) = 1
                       /\ \A e \in EnsuresOf(name) :
                             IF lcalls[e].id = 0
                             THEN ModifiesOf(name) = {}
                             ELSE /\ all_labels_map[name] = lcalls[e].id
                                  /\ ModifiedIds(name) = ids
                                  /\ \A p \in ModifiesOf(name) :
                                        /\ p > e
                                        /\ lcalls[p].add = <<lcalls[e].id>>
                                        /\ lcalls[p].remove = <<>>

(* A child label cannot be created, and a later group of more than one      *)
(* batch is labelled.                                                       *)
C23_Witness ==
    /\ op = "apply_domain_labels"
    /\ astate = "returned"
    /\ \E p, q \in DOMAIN lcalls :
          /\ p < q
          /\ IsFailedCreate(lcalls[p]) /\ IsChildName(lcalls[p].name)
          /\ lcalls[q].kind = "modify"
          /\ Len(lcalls[q].ids) = batch_size
          /\ lcalls[q + 1].kind = "modify"

----------------------------------------------------------------------------
(* A further claim about get_gmail_service, checked under SpecAuth *)

(* The token file of the scope existed and the credentials loaded from it   *)
(* are valid.                                                               *)
LoadedValid == alog # <<>> /\ alog[1].step = "load" /\ alog[1].creds = "valid"

StepsOtherThan(steps) == {p \in DOMAIN alog : alog[p].step \notin steps}

(* C24: with a valid persisted token get_gmail_service attempts no refresh, *)
(* starts no authorization flow, reads no client-secret source and leaves   *)
(* the token files as they are; the token file is written only when the     *)
(* loaded token was absent or not valid.                                    *)
C24_ValidTokenUsedAsIs ==
    /\ [](LoadedValid =>
             /\ StepsOtherThan({"load", "build", "HttpError"}) = {}
             /\ apc \in {"build", "returned"}
             /\ creds = "valid"
             /\ token_file[scope_name] = "valid"
             /\ service \in {"None", "valid"})
    /\ [](StepsOf("write") # {} => alog[1].creds \in {"None", "expired_refreshable", "expired"})
    /\ [][LoadedValid' => token_file' = token_file]_vars

(* The handle is built on the persisted token although a client-secret      *)
(* source is at hand.                                                       *)
C24_Witness ==
    /\ op = "get_gmail_service"
    /\ LoadedValid
    /\ apc = "returned"
    /\ service = "valid"
    /\ credentials_file
    /\ credentials_json_content = "client config"

====
